---------------------------- MODULE Spec2Model ----------------------------
(***************************************************************************)
(* Model of the telemetry pipeline of IoT_Platform.py:                     *)
(*   SerialReader.validate_sensor_data  (the Validator),                   *)
(*   SerialReader.run                   (the worker that emits Readings),  *)
(*   MainWindow.handle_data             (the Dispatcher),                  *)
(*   MainWindow.check_db_save           (the persistence throttler),       *)
(*   DatabaseManager.insert_sensor_data (the Store insert),                *)
(*   MainWindow.update_all              (the liveness watchdog).           *)
(*                                                                         *)
(* Python values are tagged records: the tag t is the Python type.  A      *)
(* float carries its value in tenths (452 is 45.2), an int its value.      *)
(***************************************************************************)
EXTENDS Integers, Sequences, FiniteSets, TLC

VARIABLES
    now,            \* the clock read by datetime.now(), in seconds
    worker,         \* SerialReader thread: "running" or "dead"
    queue,          \* data_received signals emitted and not yet delivered
    node_data,      \* MainWindow.node_data: node id -> NoInfo or {data, timestamp}
    node_order,     \* insertion order of the keys of MainWindow.node_data
    last_db_save,   \* MainWindow.last_db_save: node id -> None or time
    node_status,    \* NodeWidget.status_label text of each node widget
    dash_status,    \* GeneralUserDashboard.node_status_labels[n]['status'] text
    table,          \* rows of the sensor_data table, in insertion order
    latest,         \* history: the last Reading handed to handle_data per node, and when
    offline_calls,  \* history: set_offline calls per node since its last Reading
    received,       \* number of data_received signals emitted so far
    ticks,          \* number of clock advances so far
    v_in,           \* validator harness: the field map under validation
    v_out,          \* validator harness: validate_sensor_data(v_in)
    v_again,        \* validator harness: validate_sensor_data(v_out)
    delivered,      \* history: per consumer of handle_data, the Readings it was called with
    emit_log,       \* history: the data_received signals emitted, in order
    raised,         \* history: number of handle_data calls left by a consumer's exception
    app,            \* the Qt application: "running" or "aborted"
    serial_reader,  \* MainWindow.serial_reader: 0 (None) or the index of a SerialReader
    pc,             \* per SerialReader: position of its thread in run()
    running,        \* per SerialReader: the running flag
    serial_conn,    \* per SerialReader: "none", "open" or "closed"
    exit_reason,    \* history, per SerialReader: why run() was left
    last_status,    \* per SerialReader: the last status_update it emitted
    emit_count,     \* history, per SerialReader: data_received signals it emitted
    gui,            \* the GUI thread: idle, blocked in SerialReader.stop(), or closed
    db,             \* DatabaseManager: "open", "no_connection" or "closed"
    tick_raised,    \* history: a check_db_save call was left by an exception
    restarts,       \* number of program restarts so far
    rx_line,        \* reader harness: the line readline() returned, as tokens
    rx_out,         \* reader harness: what one turn of the loop did with rx_line
    tz,             \* seconds the local clock is ahead of UTC
    ins_ret         \* what the last insert_sensor_data call returned

vars == <<now, worker, queue, node_data, node_order, last_db_save, node_status,
          dash_status, table, latest, offline_calls, received, ticks,
          v_in, v_out, v_again,
          delivered, emit_log, raised, app,
          serial_reader, pc, running, serial_conn, exit_reason, last_status, emit_count, gui,
          db, tick_raised, restarts,
          rx_line, rx_out, tz, ins_ret>>

pipeVars == <<now, worker, queue, node_data, node_order, last_db_save,
              node_status, dash_status, table, latest, offline_calls, received, ticks>>

valVars == <<v_in, v_out, v_again>>

dispVars == <<delivered, emit_log, raised, app>>

workVars == <<serial_reader, pc, running, serial_conn, exit_reason, last_status,
              emit_count, gui>>

storeVars == <<db, tick_raised, restarts>>

auxVars == <<rx_line, rx_out, tz, ins_ret>>

extVars == <<dispVars, workVars, storeVars, auxVars>>

-----------------------------------------------------------------------------
(* Bounds of the model *)

MaxTicks == 2
MaxReadings == 2
MaxOfflineCalls == 2
MaxFields == 2
MaxWorkers == 2
MaxRestarts == 1

(* Program constants *)

ThrottleWindow == 5
SilenceTimeout == 60

Nodes == {1, 2, 3}

-----------------------------------------------------------------------------
(* Python values *)

PyNone == [t |-> "none"]
PyIntV(n) == [t |-> "int", v |-> n]
PyFloatV(n) == [t |-> "float", v |-> n]
PyStrV(x) == [t |-> "str", s |-> x]
PyBool(b) == [t |-> "bool", b |-> b]
PyInf == [t |-> "inf"]
PyNan == [t |-> "nan"]
PyListV(items) == [t |-> "list", items |-> items]
PyBigInt == [t |-> "bigint"]
PyDict(m) == [t |-> "dict", m |-> m]
Raised(e) == [t |-> "raise", exc |-> e]

BigIntValue == 100000000

\* the strings that Python parses as numbers, with their value in tenths
NumericStrings == {"2", "3", "12", "1.5"}
IntegerStrings == {"2", "3", "12"}
StrTenths(x) ==
    CASE x = "2" -> 20
      [] x = "3" -> 30
      [] x = "12" -> 120
      [] x = "1.5" -> 15
      [] OTHER -> 0

Range(seq) == {seq[i] : i \in DOMAIN seq}

Trunc(tenths) == IF tenths >= 0 THEN tenths \div 10 ELSE -((-tenths) \div 10)

\* int(x): an int value, or the exception raised
PyInt(x) ==
    CASE x.t = "int" -> PyIntV(x.v)
      [] x.t = "bool" -> PyIntV(IF x.b THEN 1 ELSE 0)
      [] x.t = "float" -> PyIntV(Trunc(x.v))
      [] x.t = "bigint" -> PyIntV(BigIntValue)
      [] x.t = "str" -> IF x.s \in IntegerStrings
                          THEN PyIntV(StrTenths(x.s) \div 10)
                          ELSE Raised("ValueError")
      [] x.t = "nan" -> Raised("ValueError")
      [] x.t = "inf" -> Raised("OverflowError")
      [] OTHER -> Raised("TypeError")

\* float(x): a float value (inf and nan included), or the exception raised
PyFloat(x) ==
    CASE x.t = "int" -> PyFloatV(x.v * 10)
      [] x.t = "bool" -> PyFloatV(IF x.b THEN 10 ELSE 0)
      [] x.t = "float" -> x
      [] x.t = "inf" -> x
      [] x.t = "nan" -> x
      [] x.t = "bigint" -> Raised("OverflowError")
      [] x.t = "str" -> IF x.s \in NumericStrings
                          THEN PyFloatV(StrTenths(x.s))
                          ELSE Raised("ValueError")
      [] OTHER -> Raised("TypeError")

\* repr(x) in place of str(x): a string gains quotes each time
PyStr_repr(x) ==
    CASE x.t = "str" -> PyStrV("'" \o x.s \o "'")
      [] x.t = "int" -> IF x.v = 5 THEN PyStrV("5") ELSE PyStrV("<int>")
      [] x.t = "none" -> PyStrV("None")
      [] OTHER -> PyStrV("<repr>")

\* str(x) for the values a nodeType label takes
PyStr(x) ==
    CASE x.t = "str" -> x
      [] x.t = "int" -> IF x.v = 5 THEN PyStrV("5") ELSE PyStrV("<int>")
      [] x.t = "none" -> PyStrV("None")
      [] OTHER -> PyStrV("<repr>")

\* min_val <= val <= max_val on a float; false for inf and nan
InRange(val, min_val, max_val) ==
    /\ val.t = "float"
    /\ min_val * 10 <= val.v
    /\ val.v <= max_val * 10

-----------------------------------------------------------------------------
(* SerialReader.validate_sensor_data *)

FieldNames == {"pm25", "pm10", "eco2", "tvoc", "co", "no2", "temp", "humidity"}

numeric_fields ==
    [f \in FieldNames |->
        CASE f = "temp" -> <<-50, 100>>
          [] f = "humidity" -> <<0, 100>>
          [] OTHER -> <<0, 10000>>]

Caught == {"ValueError", "TypeError"}

FieldKept(data, f) ==
    /\ f \in DOMAIN data
    /\ InRange(PyFloat(data[f]), numeric_fields[f][1], numeric_fields[f][2])

FieldRaises(data, f) ==
    /\ f \in DOMAIN data
    /\ PyFloat(data[f]).t = "raise"
    /\ PyFloat(data[f]).exc \notin Caught

Validated(data, node_id) ==
    LET keys == {"nodeId"}
                \cup (IF "nodeType" \in DOMAIN data THEN {"nodeType"} ELSE {})
                \cup {f \in FieldNames : FieldKept(data, f)}
    IN [k \in keys |->
            IF k = "nodeId" THEN PyIntV(node_id)
            ELSE IF k = "nodeType" THEN PyStr(data[k])
            ELSE PyFloat(data[k])]

AcceptValidated(validated) ==
    IF Cardinality(DOMAIN validated) > 1 THEN PyDict(validated) ELSE PyNone

\* the upper bound of the id check left out
IdInRange_noUpper(node_id) == 1 <= node_id

\* 1 <= node_id <= 3
IdInRange(node_id) == 1 <= node_id /\ node_id <= 3

validate_sensor_data(x) ==
    IF x.t # "dict" THEN PyNone
    ELSE IF "nodeId" \notin DOMAIN x.m THEN PyNone
    ELSE LET id == PyInt(x.m["nodeId"]) IN
         IF id.t = "raise"
         THEN (IF id.exc \in Caught THEN PyNone ELSE Raised(id.exc))
         ELSE IF ~IdInRange(id.v) THEN PyNone
         ELSE IF \E f \in FieldNames : FieldRaises(x.m, f)
              THEN Raised("OverflowError")
              ELSE AcceptValidated(Validated(x.m, id.v))

-----------------------------------------------------------------------------
(* Field maps offered to the Validator *)

\* source ids the Validator accepts: an int, a numeric string, a float
GoodIds == <<PyIntV(1), PyStrV("2"), PyFloatV(19)>>

\* source ids it does not: out of range, not coercible
BadIds == <<PyIntV(0), PyIntV(4), PyStrV("abc"), PyInf, PyNone>>

TypeValues == <<PyIntV(5), PyStrV("ESP32-S3")>>

\* per field: just below the range, both ends of it, just above it, an int
\* too large for a float; for two of the fields also a numeric and a
\* non-numeric string
FieldValues(f) ==
    <<PyFloatV(numeric_fields[f][1] * 10 - 1), PyIntV(numeric_fields[f][1]),
      PyIntV(numeric_fields[f][2]), PyFloatV(numeric_fields[f][2] * 10 + 1),
      PyBigInt>>
    \o (IF f \in {"pm25", "humidity"} THEN <<PyStrV("12"), PyStrV("abc")>>
        ELSE <<>>)

\* the map with source id `id` (absent when it is Missing), nodeType
\* TypeValues[tc] (absent when tc = 0) and the measurement values c
Missing == [t |-> "missing"]

BuildMap(id, tc, c) ==
    LET keys == (IF id # Missing THEN {"nodeId"} ELSE {})
                \cup (IF tc > 0 THEN {"nodeType"} ELSE {})
                \cup DOMAIN c
    IN [k \in keys |->
            IF k = "nodeId" THEN id
            ELSE IF k = "nodeType" THEN TypeValues[tc]
            ELSE c[k]]

\* the assignments of values to at most n measurement fields
Measurements(n) ==
    UNION {{c \in [D -> UNION {Range(FieldValues(f)) : f \in D}] :
                \A f \in D : c[f] \in Range(FieldValues(f))} :
           D \in {D \in SUBSET FieldNames : Cardinality(D) <= n}}

InputMaps(n) ==
    {BuildMap(GoodIds[i], tc, c) :
        i \in DOMAIN GoodIds, tc \in 0..Len(TypeValues), c \in Measurements(n)}
    \cup
    {BuildMap(id, tc, c) :
        id \in Range(BadIds) \cup {Missing}, tc \in 0..Len(TypeValues),
        c \in Measurements(1)}

Pending == [t |-> "pending"]

-----------------------------------------------------------------------------
(* Initial state of the pipeline: MainWindow.__init__, the widgets' init_ui *)

NoInfo == [t |-> "absent"]
None == -1

\* the SerialReader objects toggle_connection can create
Workers == 1..MaxWorkers

\* the calls of handle_data, in the order it makes them: the node widget,
\* the graph widget, the infographics widget, the general dashboard, and the
\* store into MainWindow.node_data
Consumers == <<"node_widget", "graph_widget", "infographics_widget",
               "general_dashboard", "node_data">>

Idle == [at |-> "idle"]

\* no Reading dispatched yet
DispInit ==
    /\ delivered = [c \in Range(Consumers) |-> <<>>]
    /\ emit_log = <<>>
    /\ raised = 0
    /\ app = "running"

\* SerialReader.__init__ for every reader not yet created; no reader yet
WorkInit ==
    /\ serial_reader = 0
    /\ pc = [w \in Workers |-> "unstarted"]
    /\ running = [w \in Workers |-> FALSE]
    /\ serial_conn = [w \in Workers |-> "none"]
    /\ exit_reason = [w \in Workers |-> "none"]
    /\ last_status = [w \in Workers |-> "none"]
    /\ emit_count = [w \in Workers |-> 0]
    /\ gui = Idle

\* nothing read and nothing inserted yet; the local clock shows UTC
AuxInit ==
    /\ rx_line = <<>>
    /\ rx_out = [t |-> "pending"]
    /\ tz = 0
    /\ ins_ret = TRUE

\* DatabaseManager.__init__ with a database that opened
StoreInit ==
    /\ db = "open"
    /\ tick_raised = FALSE
    /\ restarts = 0

PipeInit ==
    /\ now = 0
    /\ worker = "running"
    /\ queue = <<>>
    /\ node_data = [n \in Nodes |-> NoInfo]
    /\ node_order = <<>>
    /\ last_db_save = [n \in Nodes |-> None]
    /\ node_status = [n \in Nodes |-> "OFFLINE"]
    /\ dash_status = [n \in Nodes |-> "OFFLINE"]
    /\ table = <<>>
    /\ latest = [n \in Nodes |-> NoInfo]
    /\ offline_calls = [n \in Nodes |-> 0]
    /\ received = 0
    /\ ticks = 0
    /\ DispInit
    /\ WorkInit
    /\ StoreInit
    /\ AuxInit

-----------------------------------------------------------------------------
(* The Validator applied to one field map, and to its own output *)

InitV ==
    /\ PipeInit
    /\ v_in \in InputMaps(MaxFields)
    /\ v_out = Pending
    /\ v_again = Pending

Validate ==
    /\ v_out = Pending
    /\ v_out' = validate_sensor_data(PyDict(v_in))
    /\ UNCHANGED <<v_in, v_again>>
    /\ UNCHANGED pipeVars
    /\ UNCHANGED extVars

Revalidate ==
    /\ v_out.t = "dict"
    /\ v_again = Pending
    /\ v_again' = validate_sensor_data(v_out)
    /\ UNCHANGED <<v_in, v_out>>
    /\ UNCHANGED pipeVars
    /\ UNCHANGED extVars

NextV == Validate \/ Revalidate

SpecV == InitV /\ [][NextV]_vars

-----------------------------------------------------------------------------
(* SerialReader.run: one received line holding the parsed object `data` *)

\* the Readings emitted for the elements of a 'nodes' list, up to the first
\* element whose validation raises
RECURSIVE EmitNodes(_)
EmitNodes(items) ==
    IF items = <<>> THEN <<>>
    ELSE LET validated == validate_sensor_data(Head(items)) IN
         IF validated.t = "raise" THEN <<>>
         ELSE (IF validated.t = "dict" THEN <<validated.m>> ELSE <<>>)
              \o EmitNodes(Tail(items))

\* iterating data['nodes']: a list gives its elements, a string or a dict
\* gives strings, anything else raises TypeError
Iterable(x) == x.t \in {"list", "str", "dict"}

\* the data_received signals one line emits
Emitted(data) ==
    IF "nodes" \in DOMAIN data
    THEN (IF data["nodes"].t = "list" THEN EmitNodes(data["nodes"].items)
          ELSE <<>>)
    ELSE IF "nodeId" \in DOMAIN data
    THEN LET validated == validate_sensor_data(PyDict(data)) IN
         IF validated.t = "dict" THEN <<validated.m>> ELSE <<>>
    ELSE <<>>

\* the line makes an exception other than JSONDecodeError/ValueError leave
\* the read loop
LineRaises(data) ==
    IF "nodes" \in DOMAIN data
    THEN \/ ~Iterable(data["nodes"])
         \/ /\ data["nodes"].t = "list"
            /\ \E i \in 1..Len(data["nodes"].items) :
                   validate_sensor_data(data["nodes"].items[i]).t = "raise"
    ELSE IF "nodeId" \in DOMAIN data
    THEN validate_sensor_data(PyDict(data)).t = "raise"
    ELSE FALSE

\* Objects the transport delivers
FrameA == [nodeId |-> PyIntV(1), pm25 |-> PyFloatV(452), eco2 |-> PyIntV(900)]
FrameA2 == [nodeId |-> PyIntV(1), pm25 |-> PyStrV("12")]
FrameB == [nodeId |-> PyIntV(7), pm25 |-> PyIntV(10)]
FrameC == [nodeId |-> PyIntV(2), pm25 |-> PyIntV(99999)]
FrameT == [nodeId |-> PyIntV(2), nodeType |-> PyStrV("ESP32-S3"),
           pm25 |-> PyIntV(99999)]
FrameS == [nodeId |-> PyStrV("2"), temp |-> PyIntV(-50),
           humidity |-> PyStrV("abc")]
FrameNoId == [pm25 |-> PyIntV(10)]
FrameBadId == [nodeId |-> PyStrV("abc"), pm25 |-> PyIntV(10)]
FrameBatch == [nodes |-> PyListV(<<PyDict(FrameB), PyDict(FrameS)>>)]

\* Sources 1 and 2 send; source 3 stays silent.  FrameS arrives only as the
\* second element of the batch, behind an element with a source id of 7.
Frames == {FrameA, FrameA2, FrameB, FrameC, FrameT, FrameNoId, FrameBadId,
           FrameBatch}

\* what the worker does with each of these objects
EmittedOf == [data \in Frames |-> Emitted(data)]
RaisesOf == [data \in Frames |-> LineRaises(data)]

ReceiveFrame(data) ==
    LET emitted == EmittedOf[data] IN
    /\ worker = "running"
    /\ received + Len(emitted) <= MaxReadings
    /\ received' = received + Len(emitted)
    /\ queue' = queue \o emitted
    /\ worker' = IF RaisesOf[data] THEN "dead" ELSE worker
    /\ UNCHANGED <<now, node_data, node_order, last_db_save, node_status,
                   dash_status, table, latest, offline_calls, ticks>>
    /\ UNCHANGED valVars
    /\ UNCHANGED extVars

-----------------------------------------------------------------------------
(* MainWindow.handle_data *)

\* the guard of handle_data: the Reading carries a node id in 1..3
Dispatchable(data) ==
    /\ "nodeId" \in DOMAIN data
    /\ 1 <= data["nodeId"].v
    /\ data["nodeId"].v <= 3

\* the first Reading of a node is kept, later ones only refresh the timestamp
NodeInfo_keepFirst(data, current_time) ==
    IF node_data[data["nodeId"].v] # NoInfo
    THEN [data |-> node_data[data["nodeId"].v].data, timestamp |-> current_time]
    ELSE [data |-> data, timestamp |-> current_time]

\* the entry handle_data stores for the node
NodeInfo(data, current_time) == [data |-> data, timestamp |-> current_time]

\* the status text left as it was
StatusAfterReading_kept(status) == status

\* NodeWidget.update_data, GeneralUserDashboard.update_data: the status text
\* after a Reading
StatusAfterReading(status) == "ONLINE"

\* the dashboard's status text left as it was
DashStatusAfterReading_kept(status) == status

\* GeneralUserDashboard.update_data: the status text of the node's entry
\* after a Reading
DashStatusAfterReading(status) == "ONLINE"

HandleData ==
    /\ queue # <<>>
    /\ LET data == Head(queue)
           node_id == data["nodeId"].v
       IN IF Dispatchable(data)
          THEN /\ node_status' = [node_status EXCEPT
                                   ![node_id] = StatusAfterReading(@)]
               /\ dash_status' = [dash_status EXCEPT
                                   ![node_id] = DashStatusAfterReading(@)]
               /\ node_data' = [node_data EXCEPT ![node_id] = NodeInfo(data, now)]
               /\ node_order' = IF node_data[node_id] = NoInfo
                                THEN Append(node_order, node_id)
                                ELSE node_order
               /\ latest' = [latest EXCEPT ![node_id] = [data |-> data, at |-> now]]
               /\ offline_calls' = [offline_calls EXCEPT ![node_id] = 0]
          ELSE UNCHANGED <<node_status, dash_status, node_data, node_order,
                           latest, offline_calls>>
    /\ queue' = Tail(queue)
    /\ UNCHANGED <<now, worker, last_db_save, table, received, ticks>>
    /\ UNCHANGED valVars
    /\ UNCHANGED extVars

-----------------------------------------------------------------------------
(* DatabaseManager.validate_data, DatabaseManager.insert_sensor_data *)

\* the float stored whatever the range
validate_data_noRange(data, f) ==
    IF f \notin DOMAIN data THEN PyNone
    ELSE LET val == PyFloat(data[f]) IN
         IF val.t = "float" THEN val ELSE PyNone

\* validate_data(data.get(f), min_val, max_val): the float, or None
validate_data(data, f) ==
    IF f \notin DOMAIN data THEN PyNone
    ELSE LET val == PyFloat(data[f]) IN
         IF InRange(val, numeric_fields[f][1], numeric_fields[f][2])
         THEN val ELSE PyNone

\* the row insert_sensor_data writes; the timestamp column defaults to the
\* time of the insert
Row(node_id, data, current_time) ==
    [node_id |-> node_id,
     node_type |-> IF "nodeType" \in DOMAIN data THEN data["nodeType"]
                   ELSE PyStrV("Unknown"),
     cols |-> [f \in FieldNames |-> validate_data(data, f)],
     timestamp |-> current_time]

-----------------------------------------------------------------------------
(* MainWindow.check_db_save *)

\* the period of the timer (1 s) taken for the throttle window
ShouldSave_timerPeriod(last_save, current_time) ==
    \/ last_save = None
    \/ current_time - last_save >= 1

\* last_save is None or (current_time - last_save).total_seconds() >= 5
ShouldSave(last_save, current_time) ==
    \/ last_save = None
    \/ current_time - last_save >= ThrottleWindow

\* the cursor moved whatever the insert returned
CursorAfter_always(last_save, success, current_time) == current_time

\* the cursor after the insert: if success: last_db_save[node_id] = current_time
CursorAfter(last_save, success, current_time) ==
    IF success THEN current_time ELSE last_save

\* the data check_db_save hands to insert_sensor_data
SavedData(node_info) == node_info.data

\* a node is written only when a Reading arrived after its last write
Eligible_newOnly(n) ==
    /\ node_data[n] # NoInfo
    /\ \/ last_db_save[n] = None
       \/ /\ now - last_db_save[n] >= ThrottleWindow
          /\ node_data[n].timestamp > last_db_save[n]

\* the nodes check_db_save calls insert_sensor_data for: every entry of
\* node_data whose last save is None or at least 5 s old
Eligible(n) ==
    /\ node_data[n] # NoInfo
    /\ ShouldSave(last_db_save[n], now)

\* succeeded: the nodes whose insert returns True in this tick
CheckDbSave(succeeded) ==
    LET written == SelectSeq(node_order, LAMBDA n : Eligible(n) /\ n \in succeeded)
    IN /\ table' = table \o
              [i \in 1..Len(written) |->
                  Row(written[i], SavedData(node_data[written[i]]), now)]
       /\ last_db_save' =
              [n \in Nodes |->
                  IF Eligible(n)
                  THEN CursorAfter(last_db_save[n], n \in succeeded, now)
                  ELSE last_db_save[n]]
       /\ UNCHANGED <<now, worker, queue, node_data, node_order, node_status,
                      dash_status, latest, offline_calls, received, ticks>>
       /\ UNCHANGED valVars
       /\ UNCHANGED extVars

-----------------------------------------------------------------------------
(* MainWindow.update_all: the offline check *)

\* time_diff >= 60
IsSilent_atTimeout(timestamp, current_time) ==
    current_time - timestamp >= SilenceTimeout

\* time_diff > 60
IsSilent(timestamp, current_time) == current_time - timestamp > SilenceTimeout

\* the nodes the sweep calls set_offline for
SweepTargets ==
    {n \in Nodes : node_data[n] # NoInfo /\ IsSilent(node_data[n].timestamp, now)}

UpdateAll ==
    /\ node_status' = [n \in Nodes |->
                          IF n \in SweepTargets THEN "OFFLINE" ELSE node_status[n]]
    /\ dash_status' = [n \in Nodes |->
                          IF n \in SweepTargets THEN "OFFLINE" ELSE dash_status[n]]
    /\ offline_calls' =
           [n \in Nodes |->
               IF n \in SweepTargets /\ offline_calls[n] < MaxOfflineCalls
               THEN offline_calls[n] + 1 ELSE offline_calls[n]]
    /\ UNCHANGED <<now, worker, queue, node_data, node_order, last_db_save,
                   table, latest, received, ticks>>
    /\ UNCHANGED valVars
    /\ UNCHANGED extVars

-----------------------------------------------------------------------------
(* The clock *)

\* seconds between the instants at which handlers run, repeated in this order:
\* the instants are 0, 60, 61, 66, 126, 127, ...
Gaps == <<60, 1, 5>>

Gap(k) == Gaps[(k % Len(Gaps)) + 1]

Tick ==
    /\ ticks < MaxTicks
    /\ now' = now + Gap(ticks)
    /\ ticks' = ticks + 1
    /\ UNCHANGED <<worker, queue, node_data, node_order, last_db_save,
                   node_status, dash_status, table, latest, offline_calls,
                   received>>
    /\ UNCHANGED valVars
    /\ UNCHANGED extVars

-----------------------------------------------------------------------------
Init ==
    /\ PipeInit
    /\ v_in = FrameA
    /\ v_out = Pending
    /\ v_again = Pending

Next ==
    \/ \E data \in Frames : ReceiveFrame(data)
    \/ HandleData
    \/ \E succeeded \in SUBSET {n \in Nodes : Eligible(n)} : CheckDbSave(succeeded)
    \/ UpdateAll
    \/ Tick

Spec == Init /\ [][Next]_vars

-----------------------------------------------------------------------------
(* Claims about the Validator, checked under SpecV *)

\* the number a Python numeric value stands for, in tenths
NumTenths(x) ==
    CASE x.t = "int" -> x.v * 10
      [] x.t = "float" -> x.v
      [] x.t = "bigint" -> BigIntValue * 10
      [] OTHER -> 0

IsNumeric(x) == x.t \in {"int", "float", "bigint"}

Inside(x, f) ==
    /\ numeric_fields[f][1] * 10 <= NumTenths(x)
    /\ NumTenths(x) <= numeric_fields[f][2] * 10

\* the source id of the map is present, coercible to an integer and in {1,2,3}
IdAccepted(m) ==
    /\ "nodeId" \in DOMAIN m
    /\ PyInt(m["nodeId"]).t = "int"
    /\ PyInt(m["nodeId"]).v \in Nodes

\* a measurement field of the map that survives range validation
Survives(m, f) ==
    /\ f \in DOMAIN m
    /\ PyFloat(m[f]).t = "float"
    /\ Inside(PyFloat(m[f]), f)

\* C7: a field map of which no measurement field survives range validation
\* produces no Reading, whether or not it carries a nodeType label.
C7_NoMeasurementRejected ==
    (v_out # Pending /\ \A f \in FieldNames : ~Survives(v_in, f))
        => v_out.t # "dict"

\* C9: for a map with an accepted source id, every numeric measurement value
\* inside its closed range is in the output Reading with the same numeric
\* value, and every numeric value outside its range is absent from it.
C9_RangeProperty ==
    (v_out # Pending /\ IdAccepted(v_in)) =>
        \A f \in FieldNames \cap DOMAIN v_in :
            IsNumeric(v_in[f]) =>
                IF Inside(v_in[f], f)
                THEN /\ v_out.t = "dict"
                     /\ f \in DOMAIN v_out.m
                     /\ NumTenths(v_out.m[f]) = NumTenths(v_in[f])
                ELSE ~(v_out.t = "dict" /\ f \in DOMAIN v_out.m)

\* C10: validating the output of an accepted validation again is accepted
\* and gives the same Reading.
C10_Idempotent ==
    (v_out.t = "dict" /\ v_again # Pending) => v_again = v_out

\* C10 witness: a map whose validation converted values (so the output differs
\* from the input) has been validated twice.
C10_Witness ==
    /\ v_out.t = "dict"
    /\ v_again.t = "dict"
    /\ v_out.m # v_in
    /\ "nodeType" \in DOMAIN v_out.m
    /\ \E f \in FieldNames : f \in DOMAIN v_out.m

-----------------------------------------------------------------------------
(* Claims about the pipeline, checked under Spec *)

\* the rows of the table written for source S, in insertion order
RowsOf(S) == SelectSeq(table, LAMBDA r : r.node_id = S)

\* the rows the step appends to the table
NewRows == {i \in (Len(table) + 1)..Len(table') : TRUE}

\* the step dispatches a Reading of source S to handle_data
Dispatched(S) ==
    /\ queue # <<>>
    /\ queue' = Tail(queue)
    /\ Head(queue)["nodeId"].v = S

C2_CursorOnlyOnSuccess ==
    [][\A S \in Nodes :
          LET wrote == \E i \in NewRows :
                           table'[i].node_id = S /\ table'[i].timestamp = now
          IN /\ (last_db_save'[S] # last_db_save[S])
                    => (wrote /\ last_db_save'[S] = now)
             /\ (Eligible(S) /\ ~wrote /\ now' = now)
                    => (last_db_save'[S] = last_db_save[S] /\ Eligible(S)')
      ]_vars

\* C2 witness: a tick wrote source a while the insert for source b, which had
\* sent its Reading before that tick and was never written, failed.
C2_Witness ==
    \E a, b \in Nodes :
        /\ a # b
        /\ node_data[b] # NoInfo
        /\ last_db_save[b] = None
        /\ \E i \in 1..Len(table) :
               /\ table[i].node_id = a
               /\ node_data[b].timestamp < table[i].timestamp

\* C3: every row the throttler writes holds the last Reading dispatched for
\* its source before the write.
C3_LatestPersisted ==
    [][\A i \in NewRows :
          LET r == table'[i]
              m == latest[r.node_id]
          IN /\ m # NoInfo
             /\ \A f \in FieldNames :
                    r.cols[f] = IF f \in DOMAIN m.data THEN m.data[f] ELSE PyNone
      ]_vars

\* C3 witness: a source has been written twice with different data, so a
\* second Reading replaced the first before the second write.
C3_Witness ==
    \E S \in Nodes :
        /\ Len(RowsOf(S)) >= 2
        /\ RowsOf(S)[1].cols # RowsOf(S)[2].cols

\* C4: set_offline is called for S, and S goes from online to offline, only
\* when S has sent a Reading and the last one is more than 60 s old; a sweep
\* leaves every such source offline; a source whose last Reading is at most
\* 60 s old is online; a source that has sent nothing is never marked.
C4_OfflineIffSilent ==
    /\ [](\A S \in Nodes :
             /\ (latest[S] # NoInfo /\ now - latest[S].at <= 60)
                    => (node_status[S] = "ONLINE" /\ offline_calls[S] = 0)
             /\ latest[S] = NoInfo
                    => (node_status[S] = "OFFLINE" /\ offline_calls[S] = 0))
    /\ [][\A S \in Nodes :
             /\ (\/ offline_calls'[S] > offline_calls[S]
                 \/ (node_status[S] = "ONLINE" /\ node_status'[S] = "OFFLINE"))
                    => (latest[S] # NoInfo /\ now - latest[S].at > 60)
             /\ (latest[S] # NoInfo /\ now - latest[S].at > 60 /\ UpdateAll)
                    => (node_status'[S] = "OFFLINE" /\ offline_calls'[S] >= 1)
         ]_vars

\* C4 witness: a sweep has marked a source offline while another source, whose
\* Reading is not older than 60 s, is online.
C4_Witness ==
    \E S, T \in Nodes :
        /\ node_status[S] = "OFFLINE" /\ offline_calls[S] >= 1
        /\ node_status[T] = "ONLINE" /\ now - latest[T].at <= 60

\* C5: between two Readings of a source, set_offline is called for it at
\* most once.
C5_OfflineOnce == \A S \in Nodes : offline_calls[S] <= 1

\* C6: a source goes from offline to online only in the dispatch of one of
\* its Readings, in the node widget and in the dashboard alike, and every
\* dispatch of a Reading leaves its source online.
C6_OnlineOnlyByReading ==
    [][\A S \in Nodes :
          /\ (\/ (node_status[S] = "OFFLINE" /\ node_status'[S] = "ONLINE")
              \/ (dash_status[S] = "OFFLINE" /\ dash_status'[S] = "ONLINE"))
                 => Dispatched(S)
          /\ Dispatched(S)
                 => (node_status'[S] = "ONLINE" /\ dash_status'[S] = "ONLINE")
      ]_vars

\* C6 witness: a Reading arrived more than 60 s after the start for a source
\* that is now online, while the watchdog has marked another source offline.
C6_Witness ==
    \E S, T \in Nodes :
        /\ node_status[S] = "ONLINE" /\ latest[S] # NoInfo /\ latest[S].at > 60
        /\ node_status[T] = "OFFLINE" /\ offline_calls[T] >= 1

\* C8: every Reading handed to the Dispatcher has a source id in {1,2,3}, and
\* a line whose map has a missing, non-coercible or out-of-range source id
\* emits nothing and changes no liveness or persistence state.
C8_BadIdRejected ==
    /\ [](\A i \in 1..Len(queue) :
             /\ "nodeId" \in DOMAIN queue[i]
             /\ queue[i]["nodeId"].t = "int"
             /\ queue[i]["nodeId"].v \in {1, 2, 3})
    /\ [][\A data \in Frames :
             ("nodes" \notin DOMAIN data /\ ~IdAccepted(data) /\ ReceiveFrame(data))
                 => UNCHANGED <<queue, node_data, node_order, last_db_save,
                                node_status, dash_status, table, latest>>
         ]_vars
    /\ [](\A S \in Nodes :
             node_data[S] # NoInfo => node_data[S].data["nodeId"].v = S)

\* C8 witness: the Reading that travels only in the batch behind the element
\* with source id 7 has been dispatched: that element was dropped.
C8_Witness ==
    /\ latest[2] # NoInfo
    /\ "temp" \in DOMAIN latest[2].data
    /\ \A S \in Nodes : latest[S] # NoInfo => latest[S].data["nodeId"].v = S

-----------------------------------------------------------------------------
(* MainWindow.handle_data with its consumers, checked under SpecD.  In Spec *)
(* no consumer raises; here a call of handle_data may be left by an *)
(* exception of one of the widgets it calls. *)

\* the consumers handle_data calls when the consumer at position failAt
\* raises (0: none raises): handle_data has no try, so the exception leaves it
Reached_widgetOnly(failAt) == 1..1

Reached(failAt) ==
    IF failAt = 0 THEN 1..Len(Consumers) ELSE 1..failAt

\* the consumers whose call returned
Completed(failAt) ==
    IF failAt = 0 THEN 1..Len(Consumers) ELSE 1..(failAt - 1)

\* position of a consumer in handle_data
Position(c) == CHOOSE i \in 1..Len(Consumers) : Consumers[i] = c

\* the widgets whose update_data may raise; the store into node_data cannot
Failable == {0} \cup {i \in 1..Len(Consumers) : Consumers[i] # "node_data"}

\* SerialReader.run: one line read, its Readings emitted as data_received
EmitLine(data) ==
    LET readings == EmittedOf[data] IN
    /\ worker = "running"
    /\ received + Len(readings) <= MaxReadings
    /\ received' = received + Len(readings)
    /\ queue' = queue \o readings
    /\ emit_log' = emit_log \o readings
    /\ worker' = IF RaisesOf[data] THEN "dead" ELSE worker
    /\ UNCHANGED <<now, node_data, node_order, last_db_save, node_status,
                   dash_status, table, latest, offline_calls, ticks>>
    /\ UNCHANGED <<delivered, raised, app>>
    /\ UNCHANGED <<valVars, auxVars, workVars, storeVars>>

\* handle_data called with the oldest queued signal.  An exception that
\* leaves the slot aborts the application (PyQt5 from 5.5 on, no excepthook
\* installed) or is printed and the event loop goes on (older PyQt5).
handle_data(failAt, aborts) ==
    /\ app = "running"
    /\ queue # <<>>
    /\ LET data == Head(queue)
           node_id == data["nodeId"].v
           done(c) == Position(c) \in Completed(failAt)
       IN IF Dispatchable(data)
          THEN /\ delivered' =
                      [c \in Range(Consumers) |->
                          IF Position(c) \in Reached(failAt)
                          THEN Append(delivered[c], data) ELSE delivered[c]]
               /\ node_status' =
                      IF done("node_widget")
                      THEN [node_status EXCEPT ![node_id] = StatusAfterReading(@)]
                      ELSE node_status
               /\ dash_status' =
                      IF done("general_dashboard")
                      THEN [dash_status EXCEPT ![node_id] = DashStatusAfterReading(@)]
                      ELSE dash_status
               /\ node_data' =
                      IF done("node_data")
                      THEN [node_data EXCEPT ![node_id] = NodeInfo(data, now)]
                      ELSE node_data
               /\ node_order' =
                      IF done("node_data") /\ node_data[node_id] = NoInfo
                      THEN Append(node_order, node_id) ELSE node_order
               /\ latest' = [latest EXCEPT ![node_id] = [data |-> data, at |-> now]]
               /\ offline_calls' =
                      IF done("node_widget")
                      THEN [offline_calls EXCEPT ![node_id] = 0]
                      ELSE offline_calls
               /\ raised' = IF failAt = 0 THEN raised ELSE raised + 1
               /\ app' = IF failAt # 0 /\ aborts THEN "aborted" ELSE app
          ELSE UNCHANGED <<delivered, node_status, dash_status, node_data,
                           node_order, latest, offline_calls, raised, app>>
    /\ queue' = Tail(queue)
    /\ UNCHANGED <<now, worker, last_db_save, table, received, ticks, emit_log>>
    /\ UNCHANGED <<valVars, auxVars, workVars, storeVars>>

NextD ==
    \/ \E data \in Frames : EmitLine(data)
    \/ \E failAt \in Failable, aborts \in BOOLEAN : handle_data(failAt, aborts)

SpecD == Init /\ [][NextD]_vars

\* C11: while no consumer has raised, each consumer has been called with
\* exactly the Readings the worker emitted and that are no longer queued, once
\* each and in the order of emission; the node widget, which is called first,
\* has been so in any case; every emitted Reading is a field map that
\* validation accepts unchanged, with a source id in {1,2,3}.
C11_DeliveredOnceInOrder ==
    /\ delivered["node_widget"] \o queue = emit_log
    /\ raised = 0 => \A c \in Range(Consumers) : delivered[c] \o queue = emit_log
    /\ \A i \in 1..Len(emit_log) :
           /\ emit_log[i]["nodeId"].v \in Nodes
           /\ validate_sensor_data(PyDict(emit_log[i])) = PyDict(emit_log[i])

\* C11 witness: two different Readings were emitted and every consumer was
\* called with both.
C11_Witness ==
    /\ raised = 0
    /\ queue = <<>>
    /\ Len(emit_log) >= 2
    /\ emit_log[1] # emit_log[2]
    /\ \A c \in Range(Consumers) : delivered[c] = emit_log

\* C12: whatever consumer raised, every consumer has been called with every
\* Reading taken from the queue, and the application goes on dispatching.
C12_FailureIsolated ==
    /\ \A c \in Range(Consumers) : delivered[c] \o queue = emit_log
    /\ app = "running"

-----------------------------------------------------------------------------
(* SerialReader.run, SerialReader.stop, MainWindow.toggle_connection and *)
(* MainWindow.closeEvent: the life of the worker threads, checked under *)
(* SpecW.  Spec keeps one worker that is already in its read loop. *)

\* what a line read from the transport is, after run has cut it from the
\* first '{' to the last '}' and parsed it: text without braces, text
\* json.loads rejects, or the object json.loads returns
NoBraces == [t |-> "text"]
BadJson == [t |-> "bad_json"]
Parsed(data) == [t |-> "json", data |-> data]

\* {"nodes": 5}
FrameNodesInt == [nodes |-> PyIntV(5)]
\* {"nodes": "ab"}
FrameNodesStr == [nodes |-> PyStrV("ab")]
\* {"nodes": [5, null]}
FrameBatchScalars == [nodes |-> PyListV(<<PyIntV(5), PyNone>>)]
\* {"nodeId": Infinity, "pm25": 10}
FrameInfId == [nodeId |-> PyInf, pm25 |-> PyIntV(10)]

WireFrames == {FrameA, FrameB, FrameBatch, FrameNodesInt, FrameNodesStr,
               FrameBatchScalars, FrameInfId}

WireLines == {NoBraces, BadJson} \cup {Parsed(data) : data \in WireFrames}

\* the data_received signals the line emits
LineEmits(line) == IF line.t = "json" THEN Len(Emitted(line.data)) ELSE 0

\* the line raises something the loop's except clause
\* (json.JSONDecodeError, ValueError) does not catch
LineLeavesLoop(line) == line.t = "json" /\ LineRaises(line.data)

\* the finally clause of run left the connection as it was
ConnAfterFinally_leftOpen(conn) == conn

\* the finally clause of run: an open connection is closed
ConnAfterFinally(conn) == IF conn = "open" THEN "closed" ELSE conn

\* the SerialException handler emitted nothing
StatusOnSerialException_none == "none"

\* the SerialException handler of run emits status_update("Error: ...")
StatusOnSerialException == "Error"

\* the threads that have been started and have not left run()
Live == {w \in Workers : pc[w] \in {"starting", "opened", "loop"}}

\* serial.Serial(port, baudrate, timeout=1): opens, or raises SerialException
OpenTransport(w, ok) ==
    /\ pc[w] = "starting"
    /\ IF ok
       THEN /\ serial_conn' = [serial_conn EXCEPT ![w] = "open"]
            /\ pc' = [pc EXCEPT ![w] = "opened"]
            /\ UNCHANGED <<last_status, exit_reason>>
       ELSE /\ last_status' = [last_status EXCEPT ![w] = StatusOnSerialException]
            /\ serial_conn' = [serial_conn EXCEPT ![w] = ConnAfterFinally(@)]
            /\ pc' = [pc EXCEPT ![w] = "exited"]
            /\ exit_reason' = [exit_reason EXCEPT ![w] = "transport"]
    /\ UNCHANGED <<serial_reader, running, emit_count, gui>>
    /\ UNCHANGED <<pipeVars, valVars, auxVars, dispVars, storeVars>>

\* self.running = True; status_update.emit("Connected to ...")
SetRunning(w) ==
    /\ pc[w] = "opened"
    /\ running' = [running EXCEPT ![w] = TRUE]
    /\ last_status' = [last_status EXCEPT ![w] = "Connected"]
    /\ pc' = [pc EXCEPT ![w] = "loop"]
    /\ UNCHANGED <<serial_reader, serial_conn, exit_reason, emit_count, gui>>
    /\ UNCHANGED <<pipeVars, valVars, auxVars, dispVars, storeVars>>

\* one turn of the loop with a line waiting
ReadLine(w, line) ==
    /\ pc[w] = "loop"
    /\ running[w]
    /\ received + LineEmits(line) <= MaxReadings
    /\ received' = received + LineEmits(line)
    /\ emit_count' = [emit_count EXCEPT ![w] = @ + LineEmits(line)]
    /\ IF LineLeavesLoop(line)
       THEN /\ serial_conn' = [serial_conn EXCEPT ![w] = ConnAfterFinally(@)]
            /\ pc' = [pc EXCEPT ![w] = "exited"]
            /\ exit_reason' = [exit_reason EXCEPT ![w] = "exception"]
       ELSE UNCHANGED <<serial_conn, pc, exit_reason>>
    /\ UNCHANGED <<serial_reader, running, last_status, gui>>
    /\ UNCHANGED <<now, worker, queue, node_data, node_order, last_db_save,
                   node_status, dash_status, table, latest, offline_calls, ticks>>
    /\ UNCHANGED <<valVars, auxVars, dispVars, storeVars>>

\* in_waiting or readline raises SerialException
ReadFault(w) ==
    /\ pc[w] = "loop"
    /\ running[w]
    /\ last_status' = [last_status EXCEPT ![w] = StatusOnSerialException]
    /\ serial_conn' = [serial_conn EXCEPT ![w] = ConnAfterFinally(@)]
    /\ pc' = [pc EXCEPT ![w] = "exited"]
    /\ exit_reason' = [exit_reason EXCEPT ![w] = "transport"]
    /\ UNCHANGED <<serial_reader, running, emit_count, gui>>
    /\ UNCHANGED <<pipeVars, valVars, auxVars, dispVars, storeVars>>

\* while self.running: the flag is False, run goes through finally and returns
LeaveLoop(w) ==
    /\ pc[w] = "loop"
    /\ ~running[w]
    /\ serial_conn' = [serial_conn EXCEPT ![w] = ConnAfterFinally(@)]
    /\ pc' = [pc EXCEPT ![w] = "exited"]
    /\ exit_reason' = [exit_reason EXCEPT ![w] = "stop"]
    /\ UNCHANGED <<serial_reader, running, last_status, emit_count, gui>>
    /\ UNCHANGED <<pipeVars, valVars, auxVars, dispVars, storeVars>>

\* SerialReader.stop up to its wait(): self.running = False, then the GUI
\* thread blocks until the thread has finished
stop(w, then) ==
    /\ running' = [running EXCEPT ![w] = FALSE]
    /\ gui' = [at |-> "stop", w |-> w, then |-> then]

\* the condition of toggle_connection
Connected == serial_reader # 0 /\ running[serial_reader]

\* toggle_connection, first branch: self.serial_reader.stop()
StopCommand ==
    /\ gui = Idle
    /\ Connected
    /\ stop(serial_reader, "idle")
    /\ UNCHANGED <<serial_reader, pc, serial_conn, exit_reason, last_status,
                   emit_count>>
    /\ UNCHANGED <<pipeVars, valVars, auxVars, dispVars, storeVars>>

\* toggle_connection, second branch: a new SerialReader is created and started
StartCommand ==
    /\ gui = Idle
    /\ ~Connected
    /\ \E w \in Workers :
           /\ pc[w] = "unstarted"
           /\ \A v \in Workers : v < w => pc[v] # "unstarted"
           /\ serial_reader' = w
           /\ pc' = [pc EXCEPT ![w] = "starting"]
    /\ UNCHANGED <<running, serial_conn, exit_reason, last_status, emit_count, gui>>
    /\ UNCHANGED <<pipeVars, valVars, auxVars, dispVars, storeVars>>

toggle_connection == StopCommand \/ StartCommand

\* DatabaseManager.close: if self.conn: self.conn.close()
DbAfterClose(d) == IF d = "open" THEN "closed" ELSE d

\* closeEvent: stop the reader if there is one, then close the database
closeEvent ==
    /\ gui = Idle
    /\ IF serial_reader # 0
       THEN /\ stop(serial_reader, "closed")
            /\ UNCHANGED db
       ELSE /\ gui' = [at |-> "closed"]
            /\ db' = DbAfterClose(db)
            /\ UNCHANGED running
    /\ UNCHANGED <<serial_reader, pc, serial_conn, exit_reason, last_status,
                   emit_count, tick_raised, restarts>>
    /\ UNCHANGED <<pipeVars, valVars, auxVars, dispVars>>

\* wait() returns once the thread has finished; the caller goes on
StopReturns ==
    /\ gui.at = "stop"
    /\ pc[gui.w] = "exited"
    /\ gui' = [at |-> gui.then]
    /\ db' = IF gui.then = "closed" THEN DbAfterClose(db) ELSE db
    /\ UNCHANGED <<serial_reader, pc, running, serial_conn, exit_reason,
                   last_status, emit_count, tick_raised, restarts>>
    /\ UNCHANGED <<pipeVars, valVars, auxVars, dispVars>>

\* the steps of the thread of reader w that need no input
WorkerStep(w) ==
    \/ \E ok \in BOOLEAN : OpenTransport(w, ok)
    \/ SetRunning(w)
    \/ LeaveLoop(w)

NextW ==
    \/ \E w \in Workers : WorkerStep(w)
    \/ \E w \in Workers, line \in WireLines : ReadLine(w, line)
    \/ \E w \in Workers : ReadFault(w)
    \/ toggle_connection
    \/ closeEvent
    \/ StopReturns

SpecW == Init /\ [][NextW]_vars

\* the threads are scheduled fairly; lines and faults come as they come
FairSpecW ==
    /\ SpecW
    /\ \A w \in Workers : WF_vars(WorkerStep(w))
    /\ WF_vars(StopReturns)

\* C13: run is left only because the running flag was cleared or because the
\* transport raised SerialException; no line makes the worker leave the loop.
C13_LoopEndsOnlyOnStopOrFault ==
    \A w \in Workers : exit_reason[w] \in {"none", "stop", "transport"}

\* C14: a worker whose run() has returned holds no open transport.
C14_TransportClosedAtExit ==
    \A w \in Workers : pc[w] = "exited" => serial_conn[w] # "open"

\* C14 witness: one worker left run() through an exception raised by a line,
\* another through a transport error while reading, both after the open.
C14_Witness ==
    \E v, w \in Workers :
        /\ pc[v] = "exited" /\ exit_reason[v] = "exception"
        /\ serial_conn[v] = "closed"
        /\ pc[w] = "exited" /\ exit_reason[w] = "transport"
        /\ serial_conn[w] = "closed"

\* C17: at most one started SerialReader thread has not left run(), and at
\* most one holds an open transport.
C17_SingleWorker ==
    /\ Cardinality(Live) <= 1
    /\ Cardinality({w \in Workers : serial_conn[w] = "open"}) <= 1

\* the GUI thread is inside stop() of reader w
Stopping(w) == gui.at = "stop" /\ gui.w = w

\* C18: whenever stop() has been called on a started worker, the worker
\* eventually has left run() with its transport closed and stop() has returned.
C18_StopTerminates ==
    \A w \in Workers :
        Stopping(w) ~> (pc[w] = "exited" /\ serial_conn[w] # "open" /\ gui.at # "stop")

\* C19: a start command issued while the reader of the previous start command
\* is still alive leaves the live workers as they are, and a stop() of a
\* reader that is already stopped changes nothing of any reader.
C19_CommandsIdempotent ==
    [][/\ (StartCommand /\ Live # {}) => Live' = Live
       /\ \A w \in Workers :
              (Stopping(w)' /\ pc[w] = "exited" /\ ~running[w])
                  => <<pc, running, serial_conn>>' = <<pc, running, serial_conn>>
      ]_vars

\* C20: a worker that met a transport fault has emitted the Error status, has
\* left run() and holds no open transport; a worker that has left run() emits
\* nothing more and never opens a transport again; Readings are emitted only
\* by a worker in its read loop, and a thread is started only by a start
\* command.
C20_TransportFaultHalts ==
    /\ [](\A w \in Workers :
             exit_reason[w] = "transport"
                 => /\ last_status[w] = "Error"
                    /\ pc[w] = "exited"
                    /\ serial_conn[w] # "open")
    /\ [][/\ \A w \in Workers :
                /\ pc[w] = "exited"
                      => /\ pc'[w] = "exited"
                         /\ emit_count'[w] = emit_count[w]
                         /\ serial_conn'[w] = serial_conn[w]
                /\ (pc[w] = "unstarted" /\ pc'[w] # "unstarted")
                      => (StartCommand /\ serial_reader' = w)
          /\ received' > received
                => \E w \in Workers : pc[w] = "loop" /\ emit_count'[w] > emit_count[w]
         ]_vars

\* C20 witness: a worker emitted a Reading and then met a transport fault,
\* and a worker started by a later start command has emitted a Reading.
C20_Witness ==
    \E v, w \in Workers :
        /\ v < w
        /\ exit_reason[v] = "transport" /\ emit_count[v] >= 1
        /\ last_status[v] = "Error"
        /\ emit_count[w] >= 1

-----------------------------------------------------------------------------
(* DatabaseManager over the life of the database file: init_database, *)
(* insert_sample_data, insert_sensor_data and close, checked under SpecS. *)
(* Spec keeps a database that opened and looks only at the rows the *)
(* throttler writes. *)

\* the lower ends of the random.uniform ranges of insert_sample_data, taken
\* for the random values
SampleValues ==
    [pm25 |-> 10, pm10 |-> 20, eco2 |-> 400, tvoc |-> 100, co |-> 1,
     no2 |-> 10, temp |-> 20, humidity |-> 40]

\* insert_sample_data: the rows of its first round (i = 0), one per node
SampleRows(current_time) ==
    [n \in 1..3 |->
        [node_id |-> n,
         node_type |-> PyStrV("ESP32-S3"),
         cols |-> [f \in FieldNames |-> PyFloatV(SampleValues[f] * 10)],
         timestamp |-> current_time]]

\* init_database: sqlite3.connect succeeds (ok) or raises sqlite3.Error, which
\* leaves conn and cursor None
DbAfterInit(ok) == IF ok THEN "open" ELSE "no_connection"

\* init_database on a file holding rows: DROP TABLE IF EXISTS sensor_data,
\* CREATE TABLE, insert_sample_data; a failed connect leaves the file alone
TableAfterInit(rows, ok, current_time) ==
    IF ok THEN SampleRows(current_time) ELSE rows

\* the program has been started for the first time
InitS ==
    /\ now = 0
    /\ worker = "running"
    /\ queue = <<>>
    /\ node_data = [n \in Nodes |-> NoInfo]
    /\ node_order = <<>>
    /\ last_db_save = [n \in Nodes |-> None]
    /\ node_status = [n \in Nodes |-> "OFFLINE"]
    /\ dash_status = [n \in Nodes |-> "OFFLINE"]
    /\ latest = [n \in Nodes |-> NoInfo]
    /\ offline_calls = [n \in Nodes |-> 0]
    /\ received = 0
    /\ ticks = 0
    /\ DispInit
    /\ WorkInit
    /\ AuxInit
    /\ tick_raised = FALSE
    /\ restarts = 0
    /\ \E ok \in BOOLEAN :
           /\ db = DbAfterInit(ok)
           /\ table = TableAfterInit(<<>>, ok, 0)
    /\ v_in = FrameA
    /\ v_out = Pending
    /\ v_again = Pending

\* the program is ended and started again: MainWindow.__init__ builds
\* everything anew and DatabaseManager.__init__ runs init_database on the
\* same file
Restart(ok) ==
    /\ restarts < MaxRestarts
    /\ restarts' = restarts + 1
    /\ db' = DbAfterInit(ok)
    /\ table' = TableAfterInit(table, ok, now)
    /\ worker' = "running"
    /\ queue' = <<>>
    /\ node_data' = [n \in Nodes |-> NoInfo]
    /\ node_order' = <<>>
    /\ last_db_save' = [n \in Nodes |-> None]
    /\ node_status' = [n \in Nodes |-> "OFFLINE"]
    /\ dash_status' = [n \in Nodes |-> "OFFLINE"]
    /\ latest' = [n \in Nodes |-> NoInfo]
    /\ offline_calls' = [n \in Nodes |-> 0]
    /\ gui' = Idle
    /\ UNCHANGED <<now, received, ticks, tick_raised>>
    /\ UNCHANGED <<serial_reader, pc, running, serial_conn, exit_reason,
                   last_status, emit_count>>
    /\ UNCHANGED <<valVars, auxVars, dispVars>>

\* check_db_save in any state of the DatabaseManager.  With an open
\* connection an insert succeeds or raises sqlite3.Error, which
\* insert_sensor_data turns into False; after close() every execute raises
\* sqlite3.ProgrammingError, a sqlite3.Error; with cursor None the call
\* self.cursor.execute raises AttributeError, which nothing catches.
check_db_save(succeeded) ==
    \/ /\ db = "open"
       /\ CheckDbSave(succeeded)
    \/ /\ db = "closed"
       /\ CheckDbSave({})
    \/ /\ db = "no_connection"
       /\ tick_raised' = (tick_raised \/ \E n \in Nodes : Eligible(n))
       /\ UNCHANGED <<db, restarts>>
       /\ UNCHANGED <<pipeVars, valVars, auxVars, dispVars, workVars>>

NextS ==
    \/ \E data \in Frames : ReceiveFrame(data)
    \/ HandleData
    \/ \E succeeded \in SUBSET {n \in Nodes : Eligible(n)} : check_db_save(succeeded)
    \/ closeEvent
    \/ \E ok \in BOOLEAN : Restart(ok)

SpecS == InitS /\ [][NextS]_vars

\* C15: no persistence tick is left by an exception, whatever the state of
\* the DatabaseManager: insert_sensor_data returns its failure as a value.
C15_InsertNeverRaises == ~tick_raised

\* C16: the rows of the table stay as they are and in place: every step
\* leaves the rows already stored unchanged and only appends.
C16_AppendOnly ==
    [][\A i \in 1..Len(table) : i <= Len(table') /\ table'[i] = table[i]]_vars

-----------------------------------------------------------------------------
(* Further claims about the pipeline, checked under Spec *)

\* C28: every row the throttler wrote has at least one measurement column
\* that is not null.
C28_RowHasMeasurement ==
    \A i \in 1..Len(table) : \E f \in FieldNames : table[i].cols[f] # PyNone

\* C29: for every source the status text of its node widget and the status
\* text of its entry in the general dashboard are the same.
C29_StatusAgreement ==
    \A S \in Nodes :
        /\ node_status[S] = dash_status[S]
        /\ node_status[S] \in {"ONLINE", "OFFLINE"}

\* C29 witness: a Reading has put one source online in both places and a
\* sweep has put another, which had been online, offline in both.
C29_Witness ==
    \E S, T \in Nodes :
        /\ node_status[S] = "ONLINE" /\ dash_status[S] = "ONLINE"
        /\ latest[T] # NoInfo /\ offline_calls[T] >= 1
        /\ node_status[T] = "OFFLINE" /\ dash_status[T] = "OFFLINE"

-----------------------------------------------------------------------------
(* A further claim about the worker threads, checked under SpecW *)

\* C30: a worker that left run() because of a transport error has its
\* running flag cleared, so that toggle_connection starts a new worker.
C30_RunningClearedOnFault ==
    \A w \in Workers :
        (pc[w] = "exited" /\ exit_reason[w] = "transport") => ~running[w]


-----------------------------------------------------------------------------
(* The persistence timer beside a reader that can be stopped *)

\* sources 1 and 2 send; the Reading of source 2 carries no measurement
HeartbeatFrames == {FrameA, FrameA2, FrameT}

\* toggle_connection with a running reader: serial_reader.stop(); the timers
\* started by init_ui are left running
StopWorker ==
    /\ worker = "running"
    /\ worker' = "stopped"
    /\ UNCHANGED <<now, queue, node_data, node_order, last_db_save,
                   node_status, dash_status, table, latest, offline_calls,
                   received, ticks>>
    /\ UNCHANGED valVars
    /\ UNCHANGED extVars

NextH ==
    \/ \E data \in HeartbeatFrames : ReceiveFrame(data)
    \/ HandleData
    \/ \E succeeded \in SUBSET {n \in Nodes : Eligible(n)} : CheckDbSave(succeeded)
    \/ UpdateAll
    \/ Tick
    \/ StopWorker

SpecH == Init /\ [][NextH]_vars

\* source S has delivered a Reading, and it was never written or its last
\* successful write is 5 s old or older
Due(S) ==
    /\ latest[S] # NoInfo
    /\ (last_db_save[S] = None \/ now - last_db_save[S] >= 5)

\* C27: a persistence tick whose Store writes all succeed writes, for every
\* source that has delivered a Reading and whose last successful write is 5 s
\* old or older (or missing), a row holding the last Reading of the source,
\* and moves its cursor to the time of the tick; whether a new Reading has
\* arrived, the source is marked offline, or the worker is stopped does not
\* matter.
C27_Heartbeat ==
    [][(Len(table') > Len(table) /\ CheckDbSave({n \in Nodes : Due(n)}))
          => \A S \in Nodes :
                 Due(S) =>
                     /\ last_db_save'[S] = now
                     /\ \E i \in NewRows :
                            /\ table'[i].node_id = S
                            /\ table'[i].timestamp = now
                            /\ \A f \in FieldNames :
                                   table'[i].cols[f] =
                                       validate_data(latest[S].data, f)
      ]_vars

\* C27 witness: a source was written, then stayed silent for more than 60 s,
\* was marked offline, and was written again with the same Reading by a later
\* tick; the worker is stopped.
C27_Witness ==
    \E S \in Nodes :
        /\ Len(RowsOf(S)) >= 2
        /\ RowsOf(S)[1].cols = RowsOf(S)[2].cols
        /\ RowsOf(S)[2].timestamp > latest[S].at + 60
        /\ node_status[S] = "OFFLINE"
        /\ offline_calls[S] >= 1
        /\ worker = "stopped"


-----------------------------------------------------------------------------
(* Claim about the liveness record, checked under SpecD *)

\* C24: every step that dispatches a Reading of source S stores the arrival
\* time as the last time S was seen and leaves S online, whatever the
\* consumers do, and leaves the liveness records, status and cursors of the
\* other sources as they were.
C24_LivenessUpdatedFirst ==
    [][\A S \in Nodes :
          Dispatched(S) =>
              /\ node_data'[S] # NoInfo
              /\ node_data'[S].timestamp = now
              /\ node_status'[S] = "ONLINE"
              /\ \A T \in Nodes \ {S} :
                     /\ node_data'[T] = node_data[T]
                     /\ node_status'[T] = node_status[T]
                     /\ last_db_save'[T] = last_db_save[T]
      ]_vars


-----------------------------------------------------------------------------
(* SerialReader.run: what one line read from the transport is cut to, *)
(* parsed to and emitted as, checked under SpecX.  A line is a sequence of *)
(* pieces: text without braces, a lone '{', a lone '}', or the text of one *)
(* well-formed JSON object. *)

\* longest 'nodes' list of a batch frame, longest line in pieces
MaxBatch == 2
MaxTokens == 2

TextTok == [t |-> "txt"]
OpenTok == [t |-> "open"]
CloseTok == [t |-> "close"]
FrameTok(data) == [t |-> "frame", data |-> data]

\* the elements of a 'nodes' list: a valid map of source 1, a valid map with
\* a string id, an id outside 1..3, no valid field, a number, and an id of
\* Infinity
BatchElems == {PyDict(FrameA), PyDict(FrameS), PyDict(FrameB), PyDict(FrameC),
              PyIntV(5), PyDict(FrameInfId)}

SeqsUpTo(S, n) == UNION {[1..k -> S] : k \in 0..n}

\* {"nodes": [e1, ..., ek]} alone on its line
BatchLines(n) ==
    {<<FrameTok([nodes |-> PyListV(items)])>> : items \in SeqsUpTo(BatchElems, n)}

\* lines of text, braces and single frames
TokenLines(n) ==
    SeqsUpTo({TextTok, OpenTok, CloseTok, FrameTok(FrameA), FrameTok(FrameA2)}, n)

HasOpen(tok) == tok.t \in {"open", "frame"}
HasClose(tok) == tok.t \in {"close", "frame"}

\* line.index('{'): the first piece holding an opening brace
json_start(line) ==
    CHOOSE i \in DOMAIN line :
        HasOpen(line[i]) /\ \A j \in 1..(i - 1) : ~HasOpen(line[j])

\* line.rindex('}'): the last piece holding a closing brace
json_end(line) ==
    CHOOSE i \in DOMAIN line :
        HasClose(line[i]) /\ \A j \in (i + 1)..Len(line) : ~HasClose(line[j])

\* line[json_start:json_end], empty when the last '}' is before the first '{'
json_str(line) == SubSeq(line, json_start(line), json_end(line))

\* json.loads: the text of exactly one object parses; an empty string, an
\* object followed or preceded by more text, or braces around text do not
json_loads(str) ==
    IF Len(str) = 1 /\ str[1].t = "frame" THEN Parsed(str[1].data) ELSE BadJson

\* if '{' in line and '}' in line: ... data = json.loads(json_str)
Extract(line) ==
    IF (\E i \in DOMAIN line : HasOpen(line[i]))
       /\ (\E i \in DOMAIN line : HasClose(line[i]))
    THEN json_loads(json_str(line))
    ELSE NoBraces

\* readline() returns the next line
RxReadline(line) ==
    /\ worker = "running"
    /\ rx_out.t \in {"pending", "text", "bad_json", "done"}
    /\ rx_line' = line
    /\ rx_out' = [t |-> "read"]
    /\ UNCHANGED <<pipeVars, valVars, tz, ins_ret, dispVars, workVars, storeVars>>

\* the line is cut from the first '{' to the last '}' and parsed; a line
\* without braces and a JSONDecodeError are passed over
RxExtract ==
    /\ rx_out.t = "read"
    /\ rx_out' = Extract(rx_line)
    /\ UNCHANGED <<pipeVars, valVars, rx_line, tz, ins_ret, dispVars, workVars,
                   storeVars>>

\* the branches on 'nodes' and 'nodeId': the Readings emitted, and whether an
\* exception left the loop
RxProcess ==
    /\ rx_out.t = "json"
    /\ rx_out' = [t |-> "done", data |-> rx_out.data,
                  readings |-> Emitted(rx_out.data),
                  raised |-> LineRaises(rx_out.data)]
    /\ worker' = IF LineRaises(rx_out.data) THEN "dead" ELSE worker
    /\ UNCHANGED <<now, queue, node_data, node_order, last_db_save,
                   node_status, dash_status, table, latest, offline_calls,
                   received, ticks>>
    /\ UNCHANGED <<valVars, rx_line, tz, ins_ret, dispVars, workVars, storeVars>>

NextX ==
    \/ \E line \in BatchLines(MaxBatch) \cup TokenLines(MaxTokens) : RxReadline(line)
    \/ RxExtract
    \/ RxProcess

SpecX == Init /\ [][NextX]_vars

\* the Readings validating the elements one by one gives, in list order
RECURSIVE OneByOne(_)
OneByOne(items) ==
    IF items = <<>> THEN <<>>
    ELSE LET validated == validate_sensor_data(Head(items))
         IN (IF validated.t = "dict" THEN <<validated.m>> ELSE <<>>)
            \o OneByOne(Tail(items))

\* C25: for a batch frame {"nodes": [e1..en]} the worker emits exactly the
\* Readings that validating e1..en one by one gives, in list order; an
\* element that gives no Reading does not keep the elements before or after
\* it from being emitted.
C25_BatchAsSingles ==
    (rx_out.t = "done" /\ "nodes" \in DOMAIN rx_out.data
                       /\ rx_out.data["nodes"].t = "list")
        => rx_out.readings = OneByOne(rx_out.data["nodes"].items)

\* C26: when the first opening brace of the line read begins a well-formed
\* frame, that frame is extracted and parsed, whatever follows it on the
\* line.
C26_FirstFrameExtracted ==
    (rx_out.t \notin {"pending", "read"}
         /\ \E i \in DOMAIN rx_line : HasOpen(rx_line[i]))
        => LET first == rx_line[json_start(rx_line)]
           IN first.t = "frame"
                  => (rx_out.t \in {"json", "done"} /\ rx_out.data = first.data)


-----------------------------------------------------------------------------
(* DatabaseManager: the table as its connection sees it, from init_database *)
(* on, with get_recent_readings and get_statistics, checked under SpecQ. *)
(* Timestamps are seconds; `now` is the UTC clock and the local clock shows *)
(* now + tz. *)

\* rounds of insert_sample_data (100 in the code), most rows a query asks for
MaxRounds == 2
MaxLimit == 2

\* offsets of local time from UTC, in seconds
TzOffsets == {-3600, 0, 3600}

\* random.uniform(a, b): the lower ends are SampleValues, these the upper ends
SampleHigh ==
    [pm25 |-> 150, pm10 |-> 200, eco2 |-> 2000, tvoc |-> 10000, co |-> 1000,
     no2 |-> 1000, temp |-> 30, humidity |-> 70]

NumSampleRows == 3 * MaxRounds

\* insert_sample_data: round i writes nodes 1, 2, 3 with the timestamp
\* datetime.now() - i * 10 minutes, which is local time
SampleTable(local_time, values) ==
    [k \in 1..NumSampleRows |->
        [node_id |-> ((k - 1) % 3) + 1,
         node_type |-> PyStrV("ESP32-S3"),
         cols |-> [f \in FieldNames |-> PyFloatV(values[f] * 10)],
         timestamp |-> local_time - ((k - 1) \div 3) * 600]]

\* the (node_id, data) pairs insert_sensor_data is called with: a Reading of
\* source 1, a map with a value on the edge of its range and a value that is
\* no number, and a map whose only value is out of range
StoreWrites == {<<1, FrameA>>, <<2, FrameS>>, <<2, FrameC>>}

\* what the INSERT and the commit of insert_sensor_data do: both succeed,
\* execute raises sqlite3.Error, or commit raises sqlite3.Error
InsertOutcomes == {"ok", "execute_error", "commit_error"}

\* the database has been opened and filled by init_database
InitQ ==
    /\ now = 0
    /\ worker = "running"
    /\ queue = <<>>
    /\ node_data = [n \in Nodes |-> NoInfo]
    /\ node_order = <<>>
    /\ last_db_save = [n \in Nodes |-> None]
    /\ node_status = [n \in Nodes |-> "OFFLINE"]
    /\ dash_status = [n \in Nodes |-> "OFFLINE"]
    /\ latest = [n \in Nodes |-> NoInfo]
    /\ offline_calls = [n \in Nodes |-> 0]
    /\ received = 0
    /\ ticks = 0
    /\ DispInit
    /\ WorkInit
    /\ StoreInit
    /\ rx_line = <<>>
    /\ rx_out = Pending
    /\ ins_ret = TRUE
    /\ tz \in TzOffsets
    /\ table \in {SampleTable(now + tz, values) : values \in {SampleValues, SampleHigh}}
    /\ v_in = FrameA
    /\ v_out = Pending
    /\ v_again = Pending

\* insert_sensor_data(node_id, data).  The timestamp column defaults to
\* CURRENT_TIMESTAMP, which is UTC.  When commit raises, the handler returns
\* False without a rollback: the inserted row stays in the open transaction,
\* where the queries of this connection see it.
insert_sensor_data(node_id, data, outcome) ==
    /\ db = "open"
    \* at most MaxReadings rows are added to the sample rows
    /\ Len(table) < NumSampleRows + MaxReadings
    /\ table' = IF outcome = "execute_error" THEN table
                ELSE Append(table, Row(node_id, data, now))
    /\ ins_ret' = (outcome = "ok")
    /\ UNCHANGED <<now, worker, queue, node_data, node_order, last_db_save,
                   node_status, dash_status, latest, offline_calls, received,
                   ticks>>
    /\ UNCHANGED <<valVars, rx_line, rx_out, tz, dispVars, workVars, storeVars>>

\* ORDER BY timestamp DESC, read backwards from idx_timestamp: rows of equal
\* timestamp come with the larger id first
ComesBefore(a, b) ==
    \/ table[a].timestamp > table[b].timestamp
    \/ (table[a].timestamp = table[b].timestamp /\ a > b)

\* get_recent_readings(limit): the ids of the rows returned, in order
get_recent_readings(limit) ==
    LET n == Len(table)
        k == IF limit < n THEN limit ELSE n
    IN [p \in 1..k |->
           CHOOSE a \in 1..n :
               Cardinality({b \in 1..n : ComesBefore(b, a)}) = p - 1]

\* get_statistics: SELECT COUNT(*), and COUNT(*) ... GROUP BY node_id
get_statistics ==
    [total_records |-> Len(table),
     node_counts |->
         [n \in {table[i].node_id : i \in 1..Len(table)} |->
             Cardinality({i \in 1..Len(table) : table[i].node_id = n})]]

NextQ ==
    \/ \E w \in StoreWrites, outcome \in InsertOutcomes :
           insert_sensor_data(w[1], w[2], outcome)
    \/ Tick

SpecQ == InitQ /\ [][NextQ]_vars

\* C21: get_recent_readings(limit) returns min(limit, number of rows) rows,
\* newest timestamp first, and after a successful insert the row just
\* written is the first of the result, ahead of every row inserted before it.
C21_NewestFirst ==
    \A limit \in 1..MaxLimit :
        LET r == get_recent_readings(limit) IN
        /\ Len(r) = (IF limit < Len(table) THEN limit ELSE Len(table))
        /\ \A p \in 1..(Len(r) - 1) :
               table[r[p]].timestamp >= table[r[p + 1]].timestamp
        /\ (Len(table) > NumSampleRows /\ ins_ret) => r[1] = Len(table)

\* C22: every measurement column of every row of the table, the rows written
\* by init_database included, is null or a float inside the range of its
\* field.
C22_StoredInRange ==
    \A i \in 1..Len(table) : \A f \in FieldNames :
        table[i].cols[f] # PyNone
            => (table[i].cols[f].t = "float" /\ Inside(table[i].cols[f], f))

\* C22 witness: beside sample rows holding the largest values
\* insert_sample_data draws, a row stored a value on the edge of its range
\* and null for a value that is no number, and another row stored null for
\* an out-of-range value.
C22_Witness ==
    /\ table[1].cols["tvoc"] = PyFloatV(100000)
    /\ \E i, j \in (NumSampleRows + 1)..Len(table) :
           /\ table[i].cols["temp"] = PyFloatV(-500)
           /\ table[i].cols["humidity"] = PyNone
           /\ table[j].cols["pm25"] = PyNone
           /\ table[j].timestamp > table[i].timestamp

\* the sum of the per-source counts of get_statistics
RECURSIVE SumCounts(_, _)
SumCounts(counts, ids) ==
    IF ids = {} THEN 0
    ELSE LET n == CHOOSE x \in ids : TRUE
         IN counts[n] + SumCounts(counts, ids \ {n})

\* C23: total_records is the number of rows and the sum of the per-source
\* counts, and an insert that returned failure leaves the statistics as they
\* were.
C23_StatisticsFromTable ==
    /\ [](/\ get_statistics.total_records = Len(table)
          /\ get_statistics.total_records =
                 SumCounts(get_statistics.node_counts,
                           DOMAIN get_statistics.node_counts))
    /\ [][~ins_ret' => get_statistics' = get_statistics]_vars

=============================================================================
